---- MODULE Spec2Model ----
(***************************************************************************)
(* Model of the environment-variable / runtime-binding resolver            *)
(* (src/lib/env.ts: getCloudflareEnv, getImportMetaEnv, getEnvVar,         *)
(* getEnvVarSync, getD1Binding, getCloudflareEnvBindings) and of the       *)
(* lazily constructed database singleton (db/index.ts: getDb,              *)
(* initLocalDb).                                                           *)
(*                                                                         *)
(* SpecEnv: the resolver's functions applied to every context and every     *)
(* state of the three configuration sources within the bounds.             *)
(* SpecDb: callers of getDb() interleaved with the suspension points of    *)
(* the construction, while the configuration sources change; the build     *)
(* holds one of the two revisions of db/index.ts found in the tree.        *)
(* SpecClient: the resolver's functions called from client code.           *)
(*                                                                         *)
(* JavaScript values are pairs <<type, text>>; an object that maps keys    *)
(* to values (context.env, import.meta.env, process.env, ...) is a record  *)
(* [present, threw, map], where present = FALSE stands for undefined/null  *)
(* and threw = TRUE for an access that raised an exception.                *)
(***************************************************************************)
EXTENDS Integers, Sequences, FiniteSets, TLC

VARIABLES
    cfModule,     \* the ambient module 'cloudflare:workers': importable or not, and its env
    importMeta,   \* import.meta.env: "ok" (a map), "undefined", or "throws" on access
    processEnv,   \* process.env, or not present (typeof process === 'undefined')
    context,      \* the context object a caller passes to the resolver
    lastCall,     \* the latest resolver call and what it returned
    dbInstance,   \* db/index.ts: let dbInstance
    initPromise,  \* db/index.ts: let initPromise (0 = null, else index into ctors)
    ctors,        \* the constructions (async IIFEs of getDb) started so far
    callers,      \* the callers of getDb(): where each is, and what it received
    revision,     \* which of the two revisions of db/index.ts in the tree is built
    users,        \* the rows of the users table
    nextId,       \* how many ids createId() has handed out
    requests,     \* the calls of createUser / updateUser / deleteUser in progress
    configEnv,    \* process.env as drizzle.config.ts finds it
    config,       \* the configuration drizzle.config.ts exports
    page,         \* how far the page has come: delivered, theme script run, ThemeToggle shown
    theme,        \* ThemeToggle's state `theme`
    mounted,      \* ThemeToggle's state `mounted`
    dirty,        \* a render of ThemeToggle is committed whose effects have not run yet
    storage,      \* localStorage.getItem('theme')
    darkClass,    \* document.documentElement.classList.contains('dark')
    prefersDark,  \* matchMedia('(prefers-color-scheme: dark)').matches
    clicks,       \* clicks on the toggle since ThemeToggle was mounted
    text,         \* the first argument of truncateText
    maxLength,    \* the second argument of truncateText
    truncOut      \* what the call of truncateText returned

vars == <<cfModule, importMeta, processEnv, context, lastCall,
          dbInstance, initPromise, ctors, callers, revision,
          users, nextId, requests, configEnv, config,
          page, theme, mounted, dirty, storage, darkClass, prefersDark, clicks,
          text, maxLength, truncOut>>

\* what no call of the program writes: the configuration sources and the build
envVars == <<cfModule, importMeta, processEnv, revision>>
dbVars == <<dbInstance, initPromise, ctors, callers>>
usersVars == <<users, nextId, requests>>
configVars == <<configEnv, config>>
themeVars == <<page, theme, mounted, dirty, storage, darkClass, prefersDark, clicks>>
truncVars == <<text, maxLength, truncOut>>

\* the state of the application code outside the resolver and the database singleton
appVars == <<usersVars, configVars, themeVars, truncVars>>

----------------------------------------------------------------------------
(* Bounds *)

\* At most this many attachment points of a context (env, cloudflare.env,
\* platform.env, the context itself) carry entries at once.
MaxAttach == 2

\* The number of concurrent callers of getDb().
NumCallers == 2

\* No more constructions than this are started (the code starts at most one).
MaxCtors == 2

----------------------------------------------------------------------------
(* JavaScript values *)

Undefined == <<"undefined", "">>
Str(s) == <<"string", s>>
Bool(b) == <<"boolean", b>>
Num(n) == <<"number", n>>
Obj(id) == <<"object", id>>

\* JavaScript truthiness: if (v), v && ..., v || ...
Truthy(v) ==
    \/ v[1] = "object"
    \/ v[1] = "string" /\ v[2] # ""
    \/ v[1] = "boolean" /\ v[2] = "true"
    \/ v[1] = "number" /\ v[2] # "0"

\* String(v)
String(v) ==
    IF v[1] = "object" THEN Str("[object Object]")
    ELSE IF v[1] = "undefined" THEN Str("undefined")
    ELSE Str(v[2])

Keys == {"DB", "API_KEY", "LIBSQL_URL", "LIBSQL_AUTH_TOKEN",
         "VITE_API_URL", "VITE_APP_TITLE", "MODE"}

EmptyMap == [k \in Keys |-> Undefined]

\* undefined / null where an object was looked for
Absent == [present |-> FALSE, threw |-> FALSE, map |-> EmptyMap]

Present(m) == [present |-> TRUE, threw |-> FALSE, map |-> m]

Thrown == [present |-> FALSE, threw |-> TRUE, map |-> EmptyMap]

\* context === undefined
NoContext ==
    [given |-> FALSE, env |-> Absent, cloudflare |-> Absent, platform |-> Absent,
     own |-> EmptyMap]

\* context = {}
EmptyContext == [NoContext EXCEPT !.given = TRUE]

\* The outcome of a call: a returned value, or a thrown exception
Return(v) == [kind |-> "return", value |-> v]
Throw(e) == [kind |-> "throw", value |-> Str(e)]

----------------------------------------------------------------------------
(* The resolver, src/lib/env.ts *)

\* a mutant of getCloudflareEnv: probes context.cloudflare.env before context.env
getCloudflareEnv_Reordered(ctx) ==
    IF ctx.given /\ ctx.cloudflare.present /\ Truthy(ctx.cloudflare.map["DB"])
        THEN ctx.cloudflare
    ELSE IF ctx.given /\ ctx.env.present /\ Truthy(ctx.env.map["DB"]) THEN ctx.env
    ELSE IF ctx.given /\ ctx.platform.present /\ Truthy(ctx.platform.map["DB"])
        THEN ctx.platform
    ELSE IF ctx.given /\ Truthy(ctx.own["DB"]) THEN Present(ctx.own)
    ELSE IF cfModule.importable THEN cfModule.env
    ELSE Absent

\* a mutant of getCloudflareEnv: the ambient module is probed before the context
getCloudflareEnv_ModuleFirst(ctx) ==
    IF cfModule.importable THEN cfModule.env
    ELSE IF ctx.given /\ ctx.env.present /\ Truthy(ctx.env.map["DB"]) THEN ctx.env
    ELSE IF ctx.given /\ ctx.cloudflare.present /\ Truthy(ctx.cloudflare.map["DB"])
        THEN ctx.cloudflare
    ELSE IF ctx.given /\ ctx.platform.present /\ Truthy(ctx.platform.map["DB"])
        THEN ctx.platform
    ELSE IF ctx.given /\ Truthy(ctx.own["DB"]) THEN Present(ctx.own)
    ELSE Absent

\* async function getCloudflareEnv(context?)
getCloudflareEnv(ctx) ==
    IF ctx.given /\ ctx.env.present /\ Truthy(ctx.env.map["DB"]) THEN ctx.env
    ELSE IF ctx.given /\ ctx.cloudflare.present /\ Truthy(ctx.cloudflare.map["DB"])
        THEN ctx.cloudflare
    ELSE IF ctx.given /\ ctx.platform.present /\ Truthy(ctx.platform.map["DB"])
        THEN ctx.platform
    ELSE IF ctx.given /\ Truthy(ctx.own["DB"]) THEN Present(ctx.own)
    ELSE IF cfModule.importable THEN cfModule.env
    ELSE Absent

\* the expression import.meta.env, which raises where import.meta is unavailable
ImportMetaAccess ==
    IF importMeta.status = "throws" THEN Thrown
    ELSE IF importMeta.status = "ok" THEN Present(importMeta.map)
    ELSE Absent

\* a mutant of getImportMetaEnv: no try/catch around the access
getImportMetaEnv_NoCatch == ImportMetaAccess

\* function getImportMetaEnv()
getImportMetaEnv ==
    IF ImportMetaAccess.threw THEN Absent ELSE ImportMetaAccess

\* a mutant of StaticThenProcess: String(metaEnv[name]) without the test for
\* undefined
StaticThenProcess_NoDefinedCheck(name, metaEnv) ==
    IF metaEnv.threw THEN Throw("import.meta")
    ELSE IF metaEnv.present THEN Return(String(metaEnv.map[name]))
    ELSE IF processEnv.present /\ Truthy(processEnv.map[name])
        THEN Return(processEnv.map[name])
    ELSE Return(Undefined)

\* a mutant of StaticThenProcess: import.meta.env is tested for truthiness
StaticThenProcess_TruthyStatic(name, metaEnv) ==
    IF metaEnv.threw THEN Throw("import.meta")
    ELSE IF metaEnv.present /\ Truthy(metaEnv.map[name])
        THEN Return(String(metaEnv.map[name]))
    ELSE IF processEnv.present /\ Truthy(processEnv.map[name])
        THEN Return(processEnv.map[name])
    ELSE Return(Undefined)

\* a mutant of StaticThenProcess: process.env is consulted before import.meta.env
StaticThenProcess_ProcessFirst(name, metaEnv) ==
    IF metaEnv.threw THEN Throw("import.meta")
    ELSE IF processEnv.present /\ Truthy(processEnv.map[name])
        THEN Return(processEnv.map[name])
    ELSE IF metaEnv.present /\ metaEnv.map[name] # Undefined
        THEN Return(String(metaEnv.map[name]))
    ELSE Return(Undefined)

\* steps 2 and 3 of getEnvVar / getEnvVarSync: import.meta.env, then process.env
StaticThenProcess(name, metaEnv) ==
    IF metaEnv.threw THEN Throw("import.meta")
    ELSE IF metaEnv.present /\ metaEnv.map[name] # Undefined
        THEN Return(String(metaEnv.map[name]))
    ELSE IF processEnv.present /\ Truthy(processEnv.map[name])
        THEN Return(processEnv.map[name])
    ELSE Return(Undefined)

\* a mutant of getEnvVar: any defined value of the binding set is returned
getEnvVar_DefinedCheck(name, ctx) ==
    LET cfEnv == getCloudflareEnv(ctx) IN
    IF cfEnv.present /\ cfEnv.map[name] # Undefined THEN Return(cfEnv.map[name])
    ELSE StaticThenProcess(name, getImportMetaEnv)

\* a mutant of getEnvVar: the Cloudflare environment is tried last, not first
getEnvVar_CloudflareLast(name, ctx) ==
    LET cfEnv == getCloudflareEnv(ctx)
        rest == StaticThenProcess(name, getImportMetaEnv)
    IN  IF rest # Return(Undefined) THEN rest
        ELSE IF cfEnv.present /\ Truthy(cfEnv.map[name]) THEN Return(cfEnv.map[name])
        ELSE rest

\* export async function getEnvVar(name, context?)
getEnvVar(name, ctx) ==
    LET cfEnv == getCloudflareEnv(ctx) IN
    IF cfEnv.present /\ Truthy(cfEnv.map[name]) THEN Return(cfEnv.map[name])
    ELSE StaticThenProcess(name, getImportMetaEnv)

\* export function getEnvVarSync(name, context?)
getEnvVarSync(name, ctx) ==
    IF ctx.given /\ ctx.env.present /\ Truthy(ctx.env.map[name])
        THEN Return(ctx.env.map[name])
    ELSE IF ctx.given /\ ctx.cloudflare.present /\ Truthy(ctx.cloudflare.map[name])
        THEN Return(ctx.cloudflare.map[name])
    ELSE IF ctx.given /\ ctx.platform.present /\ Truthy(ctx.platform.map[name])
        THEN Return(ctx.platform.map[name])
    ELSE IF ctx.given /\ Truthy(ctx.own[name]) THEN Return(ctx.own[name])
    ELSE StaticThenProcess(name, getImportMetaEnv)

\* a mutant of getD1Binding: a discovery of its own, which looks at context.env only
getD1Binding_EnvOnly(ctx) ==
    IF ctx.given /\ ctx.env.present THEN Return(ctx.env.map["DB"]) ELSE Return(Undefined)

\* a mutant of getD1Binding: cfEnv.DB without the optional chaining
getD1Binding_NoOptionalChain(ctx) ==
    LET cfEnv == getCloudflareEnv(ctx) IN
    IF cfEnv.present THEN Return(cfEnv.map["DB"]) ELSE Throw("TypeError")

\* export async function getD1Binding(context?)
getD1Binding(ctx) ==
    LET cfEnv == getCloudflareEnv(ctx) IN
    IF cfEnv.present THEN Return(cfEnv.map["DB"]) ELSE Return(Undefined)

\* export async function getCloudflareEnvBindings(context?)
getCloudflareEnvBindings(ctx) == getCloudflareEnv(ctx)

----------------------------------------------------------------------------
(* The inputs of the resolver: contexts and configuration sources *)

\* the maps an attachment point can hold: a DB marker or none, and the key
\* API_KEY unset, empty or set
AttachMaps(db, val) ==
    {[EmptyMap EXCEPT !["DB"] = d, !["API_KEY"] = k] :
        d \in {Undefined, Obj(db)}, k \in {Undefined, Str(""), Str(val)}}

AttachPoints(db, val) == {Absent} \cup {Present(m) : m \in AttachMaps(db, val)}

\* how many attachment points of a context carry anything
Populated(ctx) ==
    (IF ctx.env.present THEN 1 ELSE 0) + (IF ctx.cloudflare.present THEN 1 ELSE 0)
    + (IF ctx.platform.present THEN 1 ELSE 0) + (IF ctx.own # EmptyMap THEN 1 ELSE 0)

Contexts ==
    {NoContext} \cup
    {c \in [given : {TRUE},
            env : AttachPoints("d1_env", "x"),
            cloudflare : AttachPoints("d1_cf", "x_cf"),
            platform : AttachPoints("d1_pf", "x_pf"),
            own : AttachMaps("d1_own", "x_own")] : Populated(c) <= MaxAttach}

\* 'cloudflare:workers': the import fails, or yields a module with an env object
CfModules ==
    {[importable |-> FALSE, env |-> Absent]} \cup
    {[importable |-> TRUE, env |-> Present(m)] : m \in AttachMaps("d1_mod", "x_mod")}

\* import.meta.env: access throws, it is undefined, or it is the bundler's map
\* (whose values need not be strings)
ImportMetas ==
    {[status |-> "throws", map |-> EmptyMap], [status |-> "undefined", map |-> EmptyMap]}
    \cup
    {[status |-> "ok", map |-> [EmptyMap EXCEPT !["API_KEY"] = v]] :
        v \in {Undefined, Str(""), Str("y"), Bool("false"), Num("0")}}

\* process.env: no process global, or a map of strings
ProcessEnvs ==
    {Absent} \cup
    {Present([EmptyMap EXCEPT !["API_KEY"] = v]) : v \in {Undefined, Str(""), Str("z")}}

\* the names the resolver is asked for
Names == {"API_KEY"}

NoCall ==
    [op |-> "none", name |-> "", out |-> Return(Undefined), env |-> Absent,
     again |-> FALSE, prev |-> Return(Undefined)]

\* the call about to be made repeats the latest one
Repeats(op, name) == lastCall.op = op /\ lastCall.name = name

\* what the latest call returned, when the call about to be made repeats it
Previous(op, name) == IF Repeats(op, name) THEN lastCall.out ELSE Return(Undefined)

----------------------------------------------------------------------------
(* The resolver's operations as actions *)

\* a mutant of CallGetEnvVar: a repeated call answers from the earlier result
CallGetEnvVar_Cached(name) ==
    /\ lastCall' = [op |-> "getEnvVar", name |-> name,
                    out |-> IF Repeats("getEnvVar", name) THEN lastCall.out
                            ELSE getEnvVar(name, context),
                    env |-> Absent,
                    again |-> Repeats("getEnvVar", name),
                    prev |-> Previous("getEnvVar", name)]
    /\ UNCHANGED <<envVars, appVars, context, dbVars>>

\* a mutant of CallGetEnvVar: the call consumes the process environment's entry
CallGetEnvVar_Consuming(name) ==
    /\ lastCall' = [op |-> "getEnvVar", name |-> name,
                    out |-> getEnvVar(name, context), env |-> Absent,
                    again |-> Repeats("getEnvVar", name),
                    prev |-> Previous("getEnvVar", name)]
    /\ processEnv' = IF processEnv.present
                     THEN Present([processEnv.map EXCEPT ![name] = Undefined])
                     ELSE processEnv
    /\ UNCHANGED <<cfModule, importMeta, revision, appVars, context, dbVars>>

CallGetEnvVar(name) ==
    /\ lastCall' = [op |-> "getEnvVar", name |-> name,
                    out |-> getEnvVar(name, context), env |-> Absent,
                    again |-> Repeats("getEnvVar", name),
                    prev |-> Previous("getEnvVar", name)]
    /\ UNCHANGED <<envVars, appVars, context, dbVars>>

CallGetEnvVarSync(name) ==
    /\ lastCall' = [op |-> "getEnvVarSync", name |-> name,
                    out |-> getEnvVarSync(name, context), env |-> Absent,
                    again |-> Repeats("getEnvVarSync", name),
                    prev |-> Previous("getEnvVarSync", name)]
    /\ UNCHANGED <<envVars, appVars, context, dbVars>>

\* a mutant of CallGetD1Binding: the binding found is memoised on the context
CallGetD1Binding_Memoising ==
    /\ lastCall' = [op |-> "getD1Binding", name |-> "DB",
                    out |-> getD1Binding(context), env |-> Absent, again |-> FALSE,
                    prev |-> Return(Undefined)]
    /\ context' = IF context.given
                  THEN [context EXCEPT !.own["DB"] = getD1Binding(context).value]
                  ELSE context
    /\ UNCHANGED <<envVars, appVars, dbVars>>

CallGetD1Binding ==
    /\ lastCall' = [op |-> "getD1Binding", name |-> "DB",
                    out |-> getD1Binding(context), env |-> Absent, again |-> FALSE,
                    prev |-> Return(Undefined)]
    /\ UNCHANGED <<envVars, appVars, context, dbVars>>

CallGetCloudflareEnvBindings ==
    /\ lastCall' = [op |-> "getCloudflareEnvBindings", name |-> "",
                    out |-> Return(Undefined), env |-> getCloudflareEnvBindings(context),
                    again |-> FALSE, prev |-> Return(Undefined)]
    /\ UNCHANGED <<envVars, appVars, context, dbVars>>

\* the resolver and the database singleton, which the application code below
\* leaves alone
coreVars == <<envVars, context, lastCall, dbVars>>

\* what the users API leaves alone
usersFrame == <<coreVars, configVars, themeVars, truncVars>>

\* what the evaluation of drizzle.config.ts leaves alone
configFrame == <<coreVars, usersVars, themeVars, truncVars>>

\* what the page's theme code leaves alone
themeFrame == <<coreVars, usersVars, configVars, truncVars>>

\* what a call of truncateText leaves alone
truncFrame == <<coreVars, usersVars, configVars, themeVars>>

\* no request of the users API has been made, the users table is empty
InitUsersIdle ==
    /\ users = {}
    /\ nextId = 0
    /\ requests = <<>>

\* drizzle.config.ts is not evaluated: it is read by drizzle-kit only
InitConfigIdle ==
    /\ configEnv = <<>>
    /\ config = <<>>

\* no page is open
InitThemeIdle ==
    /\ page = "none"
    /\ theme = "light"
    /\ mounted = FALSE
    /\ dirty = FALSE
    /\ storage = <<"null", "">>
    /\ darkClass = FALSE
    /\ prefersDark = FALSE
    /\ clicks = 0

\* truncateText is not being called
InitTruncIdle ==
    /\ text = <<>>
    /\ maxLength = 0
    /\ truncOut = [called |-> FALSE, value |-> <<>>]

InitAppIdle ==
    /\ InitUsersIdle
    /\ InitConfigIdle
    /\ InitThemeIdle
    /\ InitTruncIdle

InitDbIdle ==
    /\ dbInstance = 0
    /\ initPromise = 0
    /\ ctors = <<>>
    /\ callers = <<>>

InitEnv ==
    /\ cfModule \in CfModules
    /\ importMeta \in ImportMetas
    /\ processEnv \in ProcessEnvs
    /\ context \in Contexts
    /\ revision = "unified"
    /\ lastCall = NoCall
    /\ InitDbIdle
    /\ InitAppIdle

NextEnv ==
    \/ \E name \in Names : CallGetEnvVar(name)
    \/ \E name \in Names : CallGetEnvVarSync(name)
    \/ CallGetD1Binding
    \/ CallGetCloudflareEnvBindings

SpecEnv == InitEnv /\ [][NextEnv]_vars

----------------------------------------------------------------------------
(* The resolver in client code (src/lib/env.example.ts, getClientConfig) *)

\* the keys of import.meta.env in a client bundle: VITE_-prefixed ones and
\* the bundler's built-in ones
VitePrefixed == {"VITE_API_URL", "VITE_APP_TITLE"}
BuiltInKeys == {"MODE"}

\* import.meta.env of a client bundle
ClientImportMetas ==
    {[status |-> "ok",
      map |-> [EmptyMap EXCEPT !["VITE_API_URL"] = u, !["VITE_APP_TITLE"] = t,
                               !["MODE"] = m]] :
        u \in {Undefined, Str(""), Str("https://api.example.com")},
        t \in {Undefined, Str("My Application")},
        m \in {Str("development"), Str("production")}}

\* the names client code asks for: public ones, and names of server-only secrets
ClientNames == VitePrefixed \cup BuiltInKeys \cup {"API_KEY", "LIBSQL_AUTH_TOKEN"}

\* a browser: no context is passed, 'cloudflare:workers' cannot be imported,
\* there is no process global
InitClient ==
    /\ context = NoContext
    /\ cfModule = [importable |-> FALSE, env |-> Absent]
    /\ importMeta \in ClientImportMetas
    /\ processEnv = Absent
    /\ lastCall = NoCall
    /\ revision = "unified"
    /\ InitDbIdle
    /\ InitAppIdle

NextClient ==
    \/ \E name \in ClientNames : CallGetEnvVar(name)
    \/ \E name \in ClientNames : CallGetEnvVarSync(name)

SpecClient == InitClient /\ [][NextClient]_vars

----------------------------------------------------------------------------
(* The database singleton, db/index.ts *)

Callers == 1..NumCallers

DefaultUrl == Str("file:./db/app.db")
MalformedUrl == Str("not-a-url")

\* createClient({url, ...}) of @libsql/client throws on a URL it cannot parse
createClientThrows(url) == url = MalformedUrl

\* what getRequest() yields: the request (the context handed to the resolver),
\* or an exception outside a request
OutsideRequest == [inRequest |-> FALSE, ctx |-> NoContext]

DbRequests ==
    {OutsideRequest} \cup
    {[inRequest |-> TRUE, ctx |-> c] :
        c \in {EmptyContext,
               [EmptyContext EXCEPT !.env = Present([EmptyMap EXCEPT !["DB"] = Obj("d1_env")])],
               [EmptyContext EXCEPT
                   !.cloudflare = Present([EmptyMap EXCEPT !["DB"] = Obj("d1_cf")])]}}

DbCfModules ==
    {[importable |-> FALSE, env |-> Absent],
     [importable |-> TRUE, env |-> Present([EmptyMap EXCEPT !["DB"] = Obj("d1_mod")])],
     [importable |-> TRUE,
      env |-> Present([EmptyMap EXCEPT !["LIBSQL_URL"] = Str("libsql://edge")])]}

\* import.meta.env on the server: the bundler exposes only VITE_-prefixed and
\* built-in keys, so it holds neither LIBSQL_URL nor LIBSQL_AUTH_TOKEN
DbImportMeta == [status |-> "ok", map |-> EmptyMap]

\* process.env: LIBSQL_URL unset, empty, usable or malformed; LIBSQL_AUTH_TOKEN
\* set only next to a usable URL
DbProcessEnvs ==
    {Present([EmptyMap EXCEPT !["LIBSQL_URL"] = u]) :
        u \in {Undefined, Str(""), Str("file:./db/dev.db"), MalformedUrl}}
    \cup
    {Present([EmptyMap EXCEPT !["LIBSQL_URL"] = Str("libsql://remote"),
                              !["LIBSQL_AUTH_TOKEN"] = Str("tok")])}

\* The tree holds two revisions of db/index.ts: "unified" (getDb and initLocalDb
\* go through getD1Binding and getEnvVar of lib/env) and "inline" (getDb looks
\* for the binding itself and initLocalDb reads process.env). The import
\* '../../../db' of the routes resolves to one of them.
Revisions == {"unified", "inline"}

\* the binding discovery inlined in getDb of the "inline" revision. ctx is the
\* request (given = FALSE when getRequest() threw); the requests of the model
\* carry no 'context' property, so that context = req.context || req.env is
\* req.env, whose maps hold neither 'cloudflare' nor 'env'. The module is
\* imported only inside the try, after getRequest() succeeded.
inlineD1Binding(ctx) ==
    LET fromReq == IF ctx.env.present /\ Truthy(ctx.env.map["DB"]) THEN ctx.env.map["DB"]
                   ELSE IF Truthy(ctx.own["DB"]) THEN ctx.own["DB"]
                   ELSE Undefined
    IN  IF ~ctx.given THEN Undefined
        ELSE IF Truthy(fromReq) THEN fromReq
        ELSE IF cfModule.importable /\ cfModule.env.present THEN cfModule.env.map["DB"]
        ELSE Undefined

\* how initLocalDb reads a connection parameter: await getEnvVar(name, context)
\* in the "unified" revision, process.env[name] in the "inline" one
LocalParam(name, ctx) ==
    IF revision = "unified" THEN getEnvVar(name, ctx).value
    ELSE IF processEnv.present THEN processEnv.map[name]
    ELSE Undefined

\* a caller of getDb(): idle, awaiting the promise it was handed, or settled
IdleCaller == [pc |-> "idle", promise |-> 0, value |-> 0, err |-> "", waited |-> FALSE]

\* a mutant of ServerOnlyGuard: the window check is missing
ServerOnlyGuard_Off(win) == FALSE

\* if (typeof window !== 'undefined') throw new Error('Database access is server-only')
ServerOnlyGuard(win) == win

\* a mutant of HasInstance: the cached handle is never consulted
HasInstance_Never(db) == FALSE

\* if (dbInstance) return dbInstance
HasInstance(db) == db # 0

\* a mutant of NeedsInit: the in-flight marker is never consulted
NeedsInit_Always(p) == TRUE

\* if (!initPromise)
NeedsInit(p) == p = 0

\* a mutant of MarkerAfterStart: the marker is left as it was when construction starts
MarkerAfterStart_Unset(old, started) == old

\* initPromise = (async () => { ... })()
MarkerAfterStart(old, started) == started

\* a mutant of NewCtor: the exception of getRequest() is not caught
NewCtor_Uncaught(req) ==
    [pc |-> IF req.inRequest THEN "probe" ELSE "rejected",
     ctx |-> IF req.inRequest THEN req.ctx ELSE NoContext,
     d1 |-> Undefined, url |-> Undefined, token |-> Undefined]

\* the async IIFE up to its first suspension point: getRequest() succeeded and
\* getD1Binding(requestContext) was called, or it threw and getD1Binding() was
NewCtor(req) ==
    [pc |-> "probe",
     ctx |-> IF req.inRequest THEN req.ctx ELSE NoContext,
     d1 |-> Undefined, url |-> Undefined, token |-> Undefined]

\* export async function getDb(), called by caller c where window is defined (win)
\* or not, with getRequest() yielding req. JavaScript runs a call to completion up
\* to its first await: the guards, the start of the async IIFE (which itself runs
\* up to its first await) and the assignment to initPromise are one step.
\* src/db/index.ts holds an earlier revision of getDb with the same guards
\* (window, dbInstance, initPromise) around an inlined binding discovery.
GetDb(c, win, req) ==
    /\ callers[c].pc # "awaiting"
    /\ IF ServerOnlyGuard(win) THEN
            /\ callers' = [callers EXCEPT ![c] =
                    [IdleCaller EXCEPT !.pc = "rejected", !.err = "server-only"]]
            /\ UNCHANGED <<dbInstance, initPromise, ctors>>
       ELSE IF HasInstance(dbInstance) THEN
            /\ callers' = [callers EXCEPT ![c] =
                    [IdleCaller EXCEPT !.pc = "resolved", !.value = dbInstance]]
            /\ UNCHANGED <<dbInstance, initPromise, ctors>>
       ELSE IF NeedsInit(initPromise) THEN
            /\ Len(ctors) < MaxCtors
            /\ ctors' = Append(ctors, NewCtor(req))
            /\ initPromise' = MarkerAfterStart(initPromise, Len(ctors) + 1)
            /\ callers' = [callers EXCEPT ![c] =
                    IF initPromise' = 0
                    THEN [IdleCaller EXCEPT !.pc = "resolved", !.value = 0]
                    ELSE [IdleCaller EXCEPT !.pc = "awaiting", !.promise = initPromise',
                                            !.waited = TRUE]]
            /\ UNCHANGED dbInstance
       ELSE
            /\ callers' = [callers EXCEPT ![c] =
                    [IdleCaller EXCEPT !.pc = "awaiting", !.promise = initPromise,
                        !.waited = ctors[initPromise].pc \notin {"fulfilled", "rejected"}]]
            /\ UNCHANGED <<dbInstance, initPromise, ctors>>
    /\ UNCHANGED <<envVars, appVars, context, lastCall>>

\* d1Binding = await getD1Binding(requestContext); if (d1Binding) ... else ...
CtorProbe(i) ==
    /\ ctors[i].pc = "probe"
    /\ LET d1 == IF revision = "unified" THEN getD1Binding(ctors[i].ctx).value
                 ELSE inlineD1Binding(ctors[i].ctx) IN
       ctors' = [ctors EXCEPT ![i].d1 = d1,
                              ![i].pc = IF Truthy(d1) THEN "d1import" ELSE "localimport"]
    /\ UNCHANGED <<dbInstance, initPromise, callers, envVars, appVars, context, lastCall>>

\* a mutant of CtorD1: the D1 handle is returned without being cached
CtorD1_Uncached(i) ==
    /\ ctors[i].pc = "d1import"
    /\ ctors' = [ctors EXCEPT ![i].pc = "fulfilled"]
    /\ UNCHANGED <<dbInstance, initPromise, callers, envVars, appVars, context, lastCall>>

\* const { drizzle } = await import('drizzle-orm/d1'); dbInstance = drizzle(d1Binding)
CtorD1(i) ==
    /\ ctors[i].pc = "d1import"
    /\ dbInstance' = i
    /\ ctors' = [ctors EXCEPT ![i].pc = "fulfilled"]
    /\ UNCHANGED <<initPromise, callers, envVars, appVars, context, lastCall>>

\* a mutant of CtorLocalUrl: the resolved LIBSQL_URL is used without a default
CtorLocalUrl_NoDefault(i) ==
    /\ ctors[i].pc = "localimport"
    /\ ctors' = [ctors EXCEPT ![i].url = LocalParam("LIBSQL_URL", ctors[i].ctx),
                              ![i].pc = "token"]
    /\ UNCHANGED <<dbInstance, initPromise, callers, envVars, appVars, context, lastCall>>

\* initLocalDb: the two imports, then
\* libsqlUrl = (await getEnvVar('LIBSQL_URL', context)) || 'file:./db/app.db'
\* (process.env.LIBSQL_URL || 'file:./db/app.db' in the "inline" revision)
CtorLocalUrl(i) ==
    /\ ctors[i].pc = "localimport"
    /\ LET v == LocalParam("LIBSQL_URL", ctors[i].ctx) IN
       ctors' = [ctors EXCEPT ![i].url = IF Truthy(v) THEN v ELSE DefaultUrl,
                              ![i].pc = "token"]
    /\ UNCHANGED <<dbInstance, initPromise, callers, envVars, appVars, context, lastCall>>

\* initLocalDb: libsqlAuthToken = await getEnvVar('LIBSQL_AUTH_TOKEN', context);
\* createClient({url, authToken?}); drizzle(client); return db
CtorLocalClient(i) ==
    /\ ctors[i].pc = "token"
    /\ LET t == LocalParam("LIBSQL_AUTH_TOKEN", ctors[i].ctx) IN
       ctors' = [ctors EXCEPT ![i].token = IF Truthy(t) THEN t ELSE Undefined,
                              ![i].pc = IF createClientThrows(ctors[i].url)
                                        THEN "rejected" ELSE "created"]
    /\ UNCHANGED <<dbInstance, initPromise, callers, envVars, appVars, context, lastCall>>

\* dbInstance = await initLocalDb(requestContext); return dbInstance
CtorLocalAssign(i) ==
    /\ ctors[i].pc = "created"
    /\ dbInstance' = i
    /\ ctors' = [ctors EXCEPT ![i].pc = "fulfilled"]
    /\ UNCHANGED <<initPromise, callers, envVars, appVars, context, lastCall>>

\* a mutant of Settle: a rejection of the construction is not passed on
Settle_FulfilledOnly(c) ==
    /\ callers[c].pc = "awaiting"
    /\ ctors[callers[c].promise].pc = "fulfilled"
    /\ callers' = [callers EXCEPT ![c].pc = "resolved", ![c].value = callers[c].promise]
    /\ UNCHANGED <<dbInstance, initPromise, ctors, envVars, appVars, context, lastCall>>

\* return initPromise: the caller's promise settles as the construction did
Settle(c) ==
    /\ callers[c].pc = "awaiting"
    /\ LET p == callers[c].promise IN
       \/ /\ ctors[p].pc = "fulfilled"
          /\ callers' = [callers EXCEPT ![c].pc = "resolved", ![c].value = p]
       \/ /\ ctors[p].pc = "rejected"
          /\ callers' = [callers EXCEPT ![c].pc = "rejected", ![c].err = "construction"]
    /\ UNCHANGED <<dbInstance, initPromise, ctors, envVars, appVars, context, lastCall>>

\* the configuration sources change between two steps of the program
ChangeCfModule ==
    /\ cfModule' \in DbCfModules \ {cfModule}
    /\ UNCHANGED <<importMeta, processEnv, revision, appVars, context, lastCall, dbVars>>

ChangeProcessEnv ==
    /\ processEnv' \in DbProcessEnvs \ {processEnv}
    /\ UNCHANGED <<cfModule, importMeta, revision, appVars, context, lastCall, dbVars>>

InitDb ==
    /\ cfModule \in DbCfModules
    /\ importMeta = DbImportMeta
    /\ processEnv \in DbProcessEnvs
    /\ context = NoContext
    /\ lastCall = NoCall
    /\ revision \in Revisions
    /\ dbInstance = 0
    /\ initPromise = 0
    /\ ctors = <<>>
    /\ callers = [c \in Callers |-> IdleCaller]
    /\ InitAppIdle

NextDb ==
    \/ \E c \in Callers, win \in BOOLEAN, req \in DbRequests : GetDb(c, win, req)
    \/ \E i \in 1..Len(ctors) : CtorProbe(i)
    \/ \E i \in 1..Len(ctors) : CtorD1(i)
    \/ \E i \in 1..Len(ctors) : CtorLocalUrl(i)
    \/ \E i \in 1..Len(ctors) : CtorLocalClient(i)
    \/ \E i \in 1..Len(ctors) : CtorLocalAssign(i)
    \/ \E c \in Callers : Settle(c)
    \/ ChangeCfModule
    \/ ChangeProcessEnv

SpecDb == InitDb /\ [][NextDb]_vars

\* The event loop runs every continuation that is ready: an awaited import or
\* resolver call completes, and the reactions of a settled promise are run. The
\* callers and the changes of the sources are under no such obligation.
CtorStep ==
    \E i \in 1..Len(ctors) :
        CtorProbe(i) \/ CtorD1(i) \/ CtorLocalUrl(i) \/ CtorLocalClient(i)
        \/ CtorLocalAssign(i)

FairDb ==
    /\ WF_vars(CtorStep)
    /\ \A c \in Callers : WF_vars(Settle(c))

SpecDbFair == SpecDb /\ FairDb

----------------------------------------------------------------------------
(* The resolver's operations between changes of the configuration sources *)

\* the contexts callers pass: none, an empty one, one with a marked binding set,
\* one whose env carries the name without the marker
MutContexts ==
    {NoContext, EmptyContext,
     [EmptyContext EXCEPT !.env =
         Present([EmptyMap EXCEPT !["DB"] = Obj("d1_env"), !["API_KEY"] = Str("x")])],
     [EmptyContext EXCEPT !.env = Present([EmptyMap EXCEPT !["API_KEY"] = Str("x")])]}

MutCfModules ==
    {[importable |-> FALSE, env |-> Absent],
     [importable |-> TRUE,
      env |-> Present([EmptyMap EXCEPT !["DB"] = Obj("d1_mod"), !["API_KEY"] = Str("x_mod")])]}

MutImportMetas ==
    {[status |-> "throws", map |-> EmptyMap]} \cup
    {[status |-> "ok", map |-> [EmptyMap EXCEPT !["API_KEY"] = v]] :
        v \in {Undefined, Str("y"), Bool("false")}}

MutProcessEnvs ==
    {Absent} \cup
    {Present([EmptyMap EXCEPT !["API_KEY"] = v]) : v \in {Undefined, Str("z")}}

\* the deployment's bindings change (a new worker version is rolled out)
MutateCfModule ==
    /\ cfModule' \in MutCfModules \ {cfModule}
    /\ UNCHANGED <<importMeta, processEnv, revision, appVars, context, lastCall, dbVars>>

\* import.meta.env is an ordinary object: code may assign to its entries
MutateImportMeta ==
    /\ importMeta' \in MutImportMetas \ {importMeta}
    /\ UNCHANGED <<cfModule, processEnv, revision, appVars, context, lastCall, dbVars>>

\* process.env[name] = ..., delete process.env[name]
MutateProcessEnv ==
    /\ processEnv' \in MutProcessEnvs \ {processEnv}
    /\ UNCHANGED <<cfModule, importMeta, revision, appVars, context, lastCall, dbVars>>

\* the next caller passes another context
PassContext ==
    /\ context' \in MutContexts \ {context}
    /\ UNCHANGED <<envVars, appVars, lastCall, dbVars>>

\* the process-wide database state while the resolver is called: nothing
\* constructed yet, or a local handle constructed and cached by an earlier getDb()
InitDbCached ==
    /\ dbInstance = 1
    /\ initPromise = 1
    /\ ctors = <<[NewCtor(OutsideRequest) EXCEPT !.pc = "fulfilled", !.url = DefaultUrl]>>
    /\ callers = <<>>

InitMut ==
    /\ cfModule \in MutCfModules
    /\ importMeta \in MutImportMetas
    /\ processEnv \in MutProcessEnvs
    /\ context \in MutContexts
    /\ revision = "unified"
    /\ lastCall = NoCall
    /\ InitDbIdle \/ InitDbCached
    /\ InitAppIdle

NextMut ==
    \/ \E name \in Names : CallGetEnvVar(name)
    \/ \E name \in Names : CallGetEnvVarSync(name)
    \/ CallGetD1Binding
    \/ CallGetCloudflareEnvBindings
    \/ MutateCfModule
    \/ MutateImportMeta
    \/ MutateProcessEnv
    \/ PassContext

SpecMut == InitMut /\ [][NextMut]_vars

----------------------------------------------------------------------------
(* Claims about the resolver, checked under SpecEnv *)

\* The attachment points of a context in the order env, cloudflare.env,
\* platform.env, the context itself.
AttachmentPoints(ctx) == <<ctx.env, ctx.cloudflare, ctx.platform, Present(ctx.own)>>

\* The positions of the attachment points that carry the DB marker.
Marked(ctx) ==
    {i \in 1..4 : ctx.given /\ AttachmentPoints(ctx)[i].present
                  /\ AttachmentPoints(ctx)[i].map["DB"] # Undefined}

\* The binding set as the specification describes its discovery: the earliest
\* marked attachment point, else the ambient module's env, else none.
ExpectedBindingSet(ctx) ==
    IF Marked(ctx) # {}
    THEN AttachmentPoints(ctx)[CHOOSE i \in Marked(ctx) : \A j \in Marked(ctx) : i <= j]
    ELSE IF cfModule.importable THEN cfModule.env ELSE Absent

StaticValue(name) ==
    IF importMeta.status = "ok" THEN importMeta.map[name] ELSE Undefined

ProcessValue(name) ==
    IF processEnv.present THEN processEnv.map[name] ELSE Undefined

\* the scenario of the specification: context = {env: {DB: marker, API_KEY: 'x'}},
\* static env {API_KEY: 'y'}, process env {API_KEY: 'z'}
ScenarioPriority ==
    /\ context = [EmptyContext EXCEPT !.env =
                    Present([EmptyMap EXCEPT !["DB"] = Obj("d1_env"), !["API_KEY"] = Str("x")])]
    /\ importMeta = [status |-> "ok", map |-> [EmptyMap EXCEPT !["API_KEY"] = Str("y")]]
    /\ processEnv = Present([EmptyMap EXCEPT !["API_KEY"] = Str("z")])

\* C1: priority invariant. Whenever the edge-runtime binding set, the static
\* environment and the process environment all hold a value for the key asked
\* for (a non-empty one in the binding set and in the process environment),
\* getEnvVar returns the binding set's value; in the scenario above it returns 'x'.
C1_EdgeRuntimeWins ==
    lastCall.op = "getEnvVar" =>
        /\ ( /\ Truthy(ExpectedBindingSet(context).map[lastCall.name])
             /\ StaticValue(lastCall.name) # Undefined
             /\ Truthy(ProcessValue(lastCall.name)) )
           => lastCall.out = Return(ExpectedBindingSet(context).map[lastCall.name])
        /\ (ScenarioPriority /\ lastCall.name = "API_KEY")
           => lastCall.out = Return(Str("x"))

C1_Witness ==
    /\ ScenarioPriority
    /\ lastCall.op = "getEnvVar"
    /\ lastCall.name = "API_KEY"
    /\ lastCall.out = Return(Str("x"))

\* what the static environment, and after it the process environment, yield
StaticElseProcess(name) ==
    IF StaticValue(name) # Undefined THEN Return(String(StaticValue(name)))
    ELSE IF Truthy(ProcessValue(name)) THEN Return(ProcessValue(name))
    ELSE Return(Undefined)

\* C2: the static environment wins over the process environment. When no
\* binding set yields a value for the key (getEnvVar, any context) or no context
\* is passed (getEnvVarSync), a defined static value is returned, stringified,
\* whatever process.env holds; the process value is returned only when the
\* static environment is unavailable or has no defined value for the key.
C2_StaticBeatsProcess ==
    /\ ( /\ lastCall.op = "getEnvVar"
         /\ ~Truthy(ExpectedBindingSet(context).map[lastCall.name]) )
       => lastCall.out = StaticElseProcess(lastCall.name)
    /\ ( /\ lastCall.op = "getEnvVarSync"
         /\ ~context.given )
       => lastCall.out = StaticElseProcess(lastCall.name)

C2_Witness ==
    /\ lastCall.op = "getEnvVarSync"
    /\ ~context.given
    /\ StaticValue(lastCall.name) = Bool("false")
    /\ ProcessValue(lastCall.name) = Str("z")
    /\ lastCall.out = Return(Str("false"))

\* the key is in none of the three configuration sources
AbsentEverywhere(ctx, name) ==
    /\ ExpectedBindingSet(ctx).map[name] = Undefined
    /\ StaticValue(name) = Undefined
    /\ ProcessValue(name) = Undefined

\* C3: a key absent from the binding set, the static environment and the
\* process environment resolves to undefined, without an exception, for every
\* context, with getEnvVar and with getEnvVarSync.
C3_AbsentEverywhere ==
    ( /\ lastCall.op \in {"getEnvVar", "getEnvVarSync"}
      /\ AbsentEverywhere(context, lastCall.name) )
    => lastCall.out = Return(Undefined)

\* C9: with the ambient module not importable, getEnvVarSync returns what
\* getEnvVar returns for the same name and context.
C9_SyncEqualsAsync ==
    (lastCall.op = "getEnvVarSync" /\ ~cfModule.importable)
    => lastCall.out = getEnvVar(lastCall.name, context)

\* C10: binding-set discovery probes context.env, context.cloudflare.env,
\* context.platform.env and the context itself in this order and accepts only
\* an attachment point that carries DB: getCloudflareEnvBindings returns the
\* earliest marked attachment point (and no unmarked one), getD1Binding its DB
\* field, and getEnvVar its value for the name whenever that value is truthy.
C10_ProbeOrder ==
    /\ lastCall.op = "getCloudflareEnvBindings"
       => lastCall.env = ExpectedBindingSet(context)
    /\ lastCall.op = "getD1Binding"
       => lastCall.out = Return(ExpectedBindingSet(context).map["DB"])
    /\ (lastCall.op = "getEnvVar" /\ Truthy(ExpectedBindingSet(context).map[lastCall.name]))
       => lastCall.out = Return(ExpectedBindingSet(context).map[lastCall.name])

\* several attachment points carry DB, and the earliest was returned
C10_Witness ==
    /\ Cardinality(Marked(context)) >= 2
    /\ 1 \notin Marked(context)
    /\ 2 \in Marked(context)
    /\ lastCall.op = "getCloudflareEnvBindings"
    /\ lastCall.env = context.cloudflare

\* the earliest marked attachment point of a context that has one
ContextBindingSet(ctx) ==
    AttachmentPoints(ctx)[CHOOSE i \in Marked(ctx) : \A j \in Marked(ctx) : i <= j]

\* C11: the ambient module is probed only when the context yields no binding
\* set. With a marked attachment point in the context, getCloudflareEnvBindings,
\* getD1Binding and getEnvVar give what that attachment point (and, for a name
\* it lacks, the static and process environments) gives, whatever the module's
\* env holds; with none and the module importable, the module's env is the
\* binding set.
C11_ModuleProbedLast ==
    /\ Marked(context) # {} =>
          /\ lastCall.op = "getCloudflareEnvBindings"
             => lastCall.env = ContextBindingSet(context)
          /\ lastCall.op = "getD1Binding"
             => lastCall.out = Return(ContextBindingSet(context).map["DB"])
          /\ lastCall.op = "getEnvVar"
             => lastCall.out =
                   IF Truthy(ContextBindingSet(context).map[lastCall.name])
                   THEN Return(ContextBindingSet(context).map[lastCall.name])
                   ELSE StaticElseProcess(lastCall.name)
    /\ (Marked(context) = {} /\ cfModule.importable) =>
          /\ lastCall.op = "getCloudflareEnvBindings" => lastCall.env = cfModule.env
          /\ lastCall.op = "getD1Binding"
             => lastCall.out = Return(cfModule.env.map["DB"])
          /\ (lastCall.op = "getEnvVar" /\ Truthy(cfModule.env.map[lastCall.name]))
             => lastCall.out = Return(cfModule.env.map[lastCall.name])

\* the context's binding set lacks the name, the module's env has it, and
\* getEnvVar did not return the module's value
C11_Witness ==
    /\ Marked(context) # {}
    /\ ContextBindingSet(context).map["API_KEY"] = Undefined
    /\ cfModule.importable
    /\ cfModule.env.map["API_KEY"] = Str("x_mod")
    /\ cfModule.env.map["DB"] # Undefined
    /\ lastCall.op = "getEnvVar"
    /\ lastCall.name = "API_KEY"
    /\ lastCall.out = StaticElseProcess("API_KEY")

\* the scenario of the specification: context = {}, static env throwing on
\* access, process env {API_KEY: 'z'}, outside the edge runtime
ScenarioUnavailable ==
    /\ context = EmptyContext
    /\ ~cfModule.importable
    /\ importMeta.status = "throws"
    /\ processEnv = Present([EmptyMap EXCEPT !["API_KEY"] = Str("z")])

\* C12: an unavailable source yields nothing and never surfaces. getEnvVar
\* never throws; when the module probe fails and the context has no marked
\* attachment point the static and process environments decide; when access to
\* the static environment throws and the binding set gives no value the process
\* environment decides; in the scenario above the result is 'z'.
C12_UnavailableSourceSilent ==
    lastCall.op = "getEnvVar" =>
        /\ lastCall.out.kind = "return"
        /\ (~cfModule.importable /\ Marked(context) = {})
           => lastCall.out = StaticElseProcess(lastCall.name)
        /\ ( /\ importMeta.status = "throws"
             /\ ~Truthy(ExpectedBindingSet(context).map[lastCall.name]) )
           => lastCall.out = IF Truthy(ProcessValue(lastCall.name))
                             THEN Return(ProcessValue(lastCall.name))
                             ELSE Return(Undefined)
        /\ (ScenarioUnavailable /\ lastCall.name = "API_KEY")
           => lastCall.out = Return(Str("z"))

C12_Witness ==
    /\ ScenarioUnavailable
    /\ lastCall.op = "getEnvVar"
    /\ lastCall.name = "API_KEY"
    /\ lastCall.out = Return(Str("z"))

\* C13: falsy is absent in the edge-runtime and process sources. When the
\* discovered binding set holds the empty string for the name, getEnvVar
\* returns what the static environment, then the process environment, give;
\* an empty string in the process environment counts as no value, so with
\* nothing in the binding set and in the static environment the result is
\* undefined.
C13_FalsyIsAbsent ==
    lastCall.op = "getEnvVar" =>
        /\ ExpectedBindingSet(context).map[lastCall.name] = Str("")
           => lastCall.out =
                 IF StaticValue(lastCall.name) # Undefined
                 THEN Return(String(StaticValue(lastCall.name)))
                 ELSE IF ProcessValue(lastCall.name) \notin {Undefined, Str("")}
                 THEN Return(ProcessValue(lastCall.name))
                 ELSE Return(Undefined)
        /\ ( /\ ProcessValue(lastCall.name) = Str("")
             /\ ExpectedBindingSet(context).map[lastCall.name] \in {Undefined, Str("")}
             /\ StaticValue(lastCall.name) = Undefined )
           => lastCall.out = Return(Undefined)

\* empty strings in the binding set and in process.env, nothing in the static
\* environment: undefined
C13_Witness ==
    /\ lastCall.op = "getEnvVar"
    /\ lastCall.name = "API_KEY"
    /\ ExpectedBindingSet(context).present
    /\ ExpectedBindingSet(context).map["API_KEY"] = Str("")
    /\ StaticValue("API_KEY") = Undefined
    /\ ProcessValue("API_KEY") = Str("")
    /\ lastCall.out = Return(Undefined)

\* the static environment is reached: the binding set (getEnvVar) or every
\* attachment point of the context (getEnvVarSync) has no truthy value
StaticReached ==
    \/ /\ lastCall.op = "getEnvVar"
       /\ ~Truthy(ExpectedBindingSet(context).map[lastCall.name])
    \/ /\ lastCall.op = "getEnvVarSync"
       /\ \A i \in 1..4 :
             ~( /\ context.given
                /\ AttachmentPoints(context)[i].present
                /\ Truthy(AttachmentPoints(context)[i].map[lastCall.name]) )

\* C14: a defined static value is returned stringified even when falsy. When
\* the static environment is reached, false gives 'false', 0 gives '0', a
\* string gives itself (the empty string included), whatever process.env
\* holds; only an undefined entry lets the process environment decide.
C14_DefinedStaticReturned ==
    StaticReached =>
        /\ StaticValue(lastCall.name) = Bool("false")
           => lastCall.out = Return(Str("false"))
        /\ StaticValue(lastCall.name) = Num("0") => lastCall.out = Return(Str("0"))
        /\ StaticValue(lastCall.name) = Str("") => lastCall.out = Return(Str(""))
        /\ StaticValue(lastCall.name) = Str("y") => lastCall.out = Return(Str("y"))
        /\ StaticValue(lastCall.name) = Undefined
           => lastCall.out = IF Truthy(ProcessValue(lastCall.name))
                             THEN Return(ProcessValue(lastCall.name))
                             ELSE Return(Undefined)

\* getEnvVarSync with a context whose binding set has nothing for the name:
\* static 0 is returned as '0' although process.env has 'z'
C14_Witness ==
    /\ lastCall.op = "getEnvVarSync"
    /\ context.given
    /\ StaticReached
    /\ StaticValue("API_KEY") = Num("0")
    /\ ProcessValue("API_KEY") = Str("z")
    /\ lastCall.out = Return(Str("0"))

\* C16: getD1Binding called without a context while 'cloudflare:workers' is not
\* importable returns undefined and does not throw.
C16_NoContextNoModule ==
    ( /\ lastCall.op = "getD1Binding"
      /\ ~context.given
      /\ ~cfModule.importable )
    => lastCall.out = Return(Undefined)

C16_Witness ==
    /\ lastCall.op = "getD1Binding"
    /\ ~context.given
    /\ ~cfModule.importable
    /\ lastCall.out = Return(Undefined)

\* C17: one binding-set discovery behind the three functions. For the context
\* of the call, getD1Binding gives the DB field of what getCloudflareEnvBindings
\* gives (undefined when it gives nothing), and getEnvVar gives the value
\* getCloudflareEnvBindings holds for the name whenever that value is truthy.
C17_SameDiscovery ==
    LET bindings == getCloudflareEnvBindings(context) IN
    /\ lastCall.op = "getD1Binding"
       => lastCall.out = Return(IF bindings.present THEN bindings.map["DB"] ELSE Undefined)
    /\ ( /\ lastCall.op = "getEnvVar"
         /\ bindings.present
         /\ Truthy(bindings.map[lastCall.name]) )
       => lastCall.out = Return(bindings.map[lastCall.name])

\* the binding set sits at context.cloudflare.env, and getD1Binding found its DB
C17_Witness ==
    /\ lastCall.op = "getD1Binding"
    /\ context.given
    /\ ~context.env.present
    /\ getCloudflareEnvBindings(context) = context.cloudflare
    /\ lastCall.out = Return(Obj("d1_cf"))

\* C19 (under SpecClient): client-side exposure. In client code (no binding
\* set, no process environment, a static environment holding only
\* VITE_-prefixed and built-in keys) getEnvVar and getEnvVarSync return
\* undefined for every name that is neither VITE_-prefixed nor built-in.
C19_ClientSeesNoSecret ==
    ( /\ lastCall.op \in {"getEnvVar", "getEnvVarSync"}
      /\ lastCall.name \notin VitePrefixed \cup BuiltInKeys )
    => lastCall.out = Return(Undefined)

\* the client asked for a secret's name next to a populated static environment
C19_Witness ==
    /\ lastCall.op = "getEnvVar"
    /\ lastCall.name = "API_KEY"
    /\ StaticValue("VITE_API_URL") = Str("https://api.example.com")
    /\ ~processEnv.present
    /\ lastCall.out = Return(Undefined)

SyncHolders(name, ctx) ==
    {i \in 1..4 : /\ ctx.given
                  /\ AttachmentPoints(ctx)[i].present
                  /\ Truthy(AttachmentPoints(ctx)[i].map[name])}

ExpectedSync(name, ctx) ==
    IF SyncHolders(name, ctx) # {}
    THEN Return(AttachmentPoints(ctx)[CHOOSE i \in SyncHolders(name, ctx) :
                                         \A j \in SyncHolders(name, ctx) : i <= j].map[name])
    ELSE StaticElseProcess(name)

\* what the priority order yields for getEnvVar on the sources as they are
ExpectedAsync(name, ctx) ==
    IF Truthy(ExpectedBindingSet(ctx).map[name])
    THEN Return(ExpectedBindingSet(ctx).map[name])
    ELSE StaticElseProcess(name)

\* C21 (under SpecMut): no caching. After any sequence of calls, changes of the
\* sources and changes of the context passed, a call of getEnvVar or of
\* getEnvVarSync returns what its probe order yields on the sources as they
\* are when it is made, whatever an earlier call returned.
C21_NeverCached ==
    [][\A name \in Names :
          /\ CallGetEnvVar(name) => lastCall'.out = ExpectedAsync(name, context)
          /\ CallGetEnvVarSync(name) => lastCall'.out = ExpectedSync(name, context)]_vars

\* getEnvVar was called again after the value it had returned was removed
\* from the sources, and returned undefined
C21_Witness ==
    /\ lastCall.op = "getEnvVar"
    /\ lastCall.again
    /\ lastCall.prev = Return(Str("z"))
    /\ lastCall.out = Return(Undefined)

\* a step is a call of one of the resolver's four operations
ResolverCall ==
    \/ \E name \in Names : CallGetEnvVar(name)
    \/ \E name \in Names : CallGetEnvVarSync(name)
    \/ CallGetD1Binding
    \/ CallGetCloudflareEnvBindings

\* C22 (under SpecMut): the resolver's operations have no side effects. A call
\* of getEnvVar, getEnvVarSync, getD1Binding or getCloudflareEnvBindings leaves
\* the context it was given, the ambient module, the static environment, the
\* process environment, the cached database handle and the in-flight marker
\* as they were; the result of the call is all that changes.
C22_NoSideEffects ==
    [][ResolverCall =>
          /\ context' = context
          /\ cfModule' = cfModule
          /\ importMeta' = importMeta
          /\ processEnv' = processEnv
          /\ dbInstance' = dbInstance
          /\ initPromise' = initPromise
          /\ ctors' = ctors]_vars

\* getD1Binding found the ambient module's binding for a context that carries
\* none, next to a cached database handle; the context still carries none
C22_Witness ==
    /\ lastCall.op = "getD1Binding"
    /\ lastCall.out = Return(Obj("d1_mod"))
    /\ context.given
    /\ context.own["DB"] = Undefined
    /\ dbInstance = 1

----------------------------------------------------------------------------
(* Claims about the database singleton, checked under SpecDb *)

Pending(i) == ctors[i].pc \notin {"fulfilled", "rejected"}

\* C4: however the callers of getDb() interleave with the construction's
\* suspension points, the construction runs at most once, and every caller
\* that receives a handle receives the one cached handle.
C4_SingleConstruction ==
    /\ Len(ctors) <= 1
    /\ \A c \in Callers :
          callers[c].pc = "resolved" =>
              /\ callers[c].value # 0
              /\ callers[c].value = dbInstance
              /\ Len(ctors) = 1
    /\ \A c, d \in Callers :
          (callers[c].pc = "resolved" /\ callers[d].pc = "resolved")
          => callers[c].value = callers[d].value

\* every caller called while the construction was still pending, and all of
\* them received the same handle
C4_Witness ==
    /\ \A c \in Callers :
          callers[c].pc = "resolved" /\ callers[c].waited /\ callers[c].value = dbInstance
    /\ Len(ctors) = 1

\* C5: getDb() in a client execution context (window defined) is rejected as
\* server-only and leaves the cached handle, the in-flight marker and the
\* constructions as they were: none is started.
C5_ClientRejected ==
    [][\A c \in Callers, req \in DbRequests :
          GetDb(c, TRUE, req) =>
              /\ callers'[c].pc = "rejected"
              /\ callers'[c].err = "server-only"
              /\ UNCHANGED <<dbInstance, initPromise, ctors>>]_vars

\* a client call was rejected while a construction was in flight
C5_Witness ==
    \E c \in Callers :
        /\ callers[c].pc = "rejected"
        /\ callers[c].err = "server-only"
        /\ initPromise # 0
        /\ Pending(initPromise)

\* C6: when a construction has failed, the in-flight marker is cleared, so that
\* the next getDb() starts a new construction.
C6_GuardClearedOnFailure ==
    \A i \in 1..Len(ctors) : ctors[i].pc = "rejected" => initPromise # i

\* C7: once a handle is cached, a getDb() call on the server returns it at once,
\* whatever request it runs in and whatever the configuration sources hold by
\* then, and starts nothing.
C7_CachedHandleReturned ==
    [][\A c \in Callers, req \in DbRequests :
          (dbInstance # 0 /\ GetDb(c, FALSE, req)) =>
              /\ callers'[c].pc = "resolved"
              /\ callers'[c].value = dbInstance
              /\ UNCHANGED <<dbInstance, initPromise, ctors>>]_vars

\* a local handle is cached, the ambient module has offered a D1 binding since,
\* and a caller that never waited holds the cached handle
C7_Witness ==
    /\ dbInstance # 0
    /\ ctors[dbInstance].d1 = Undefined
    /\ cfModule.importable
    /\ cfModule.env.map["DB"] # Undefined
    /\ \E c \in Callers :
          callers[c].pc = "resolved" /\ ~callers[c].waited /\ callers[c].value = dbInstance

\* C8: while a construction is suspended the marker is that construction, and
\* once a handle is cached the marker is set: no state has a construction in
\* progress or a handle cached and a null marker.
C8_MarkerSetWhilePending ==
    /\ \A i \in 1..Len(ctors) : Pending(i) => initPromise = i
    /\ dbInstance # 0 => initPromise # 0
    /\ \A c \in Callers : callers[c].pc = "awaiting" => callers[c].promise = initPromise

\* the construction is suspended inside initLocalDb and every caller awaits it
C8_Witness ==
    /\ initPromise # 0
    /\ ctors[initPromise].pc = "token"
    /\ \A c \in Callers : callers[c].pc = "awaiting" /\ callers[c].promise = initPromise

\* what a name resolves to for a context: the binding set's truthy value, else
\* the static environment's defined value, else the process environment's
\* truthy value
Resolved(name, ctx) ==
    IF Truthy(ExpectedBindingSet(ctx).map[name]) THEN ExpectedBindingSet(ctx).map[name]
    ELSE StaticElseProcess(name).value

\* what a connection parameter resolves to in the revision that is built
ResolvedParam(name, ctx) ==
    IF revision = "unified" THEN Resolved(name, ctx) ELSE ProcessValue(name)

\* the name is unset, or set to the empty string, in every configuration source
UnsetEverywhere(name, ctx) ==
    /\ ExpectedBindingSet(ctx).map[name] \in {Undefined, Str("")}
    /\ StaticValue(name) \in {Undefined, Str("")}
    /\ ProcessValue(name) \in {Undefined, Str("")}

\* C15: the local handle's URL defaults to 'file:./db/app.db' when LIBSQL_URL
\* is unset (or empty) in every source, and is the value it resolves to when
\* that is non-empty; the client is given an auth token only when
\* LIBSQL_AUTH_TOKEN resolves to a non-empty value.
C15_DefaultLocalUrl ==
    [][\A i \in 1..Len(ctors) :
          /\ CtorLocalUrl(i) =>
                /\ UnsetEverywhere("LIBSQL_URL", ctors[i].ctx)
                   => ctors'[i].url = DefaultUrl
                /\ ResolvedParam("LIBSQL_URL", ctors[i].ctx) \notin {Undefined, Str("")}
                   => ctors'[i].url = ResolvedParam("LIBSQL_URL", ctors[i].ctx)
          /\ CtorLocalClient(i) =>
                ctors'[i].token =
                   IF ResolvedParam("LIBSQL_AUTH_TOKEN", ctors[i].ctx)
                         \notin {Undefined, Str("")}
                   THEN ResolvedParam("LIBSQL_AUTH_TOKEN", ctors[i].ctx)
                   ELSE Undefined]_vars

\* the cached handle is a local one built with the default URL and no token
C15_Witness ==
    /\ dbInstance # 0
    /\ ctors[dbInstance].pc = "fulfilled"
    /\ ~Truthy(ctors[dbInstance].d1)
    /\ ctors[dbInstance].url = DefaultUrl
    /\ ctors[dbInstance].token = Undefined

\* C18: backend auto-switching. When a construction has looked for the managed
\* database binding, it goes on to build the D1 handle if and only if a binding
\* is there to discover, in the request context or in the ambient module;
\* otherwise it goes on to build the local libsql handle, and it takes exactly
\* one of the two paths.
C18_BackendAutoSwitch ==
    [][\A i \in 1..Len(ctors) :
          CtorProbe(i) =>
              /\ ctors'[i].pc \in {"d1import", "localimport"}
              /\ ctors'[i].pc = "d1import"
                 <=> Truthy(ExpectedBindingSet(ctors[i].ctx).map["DB"])]_vars

\* C23: the cached handle is single-assignment. Once dbInstance is set no step
\* changes it, once initPromise is set no step changes it, and every caller
\* whose getDb() succeeded holds the cached handle.
C23_SingleAssignment ==
    [][/\ dbInstance # 0 => dbInstance' = dbInstance
       /\ initPromise # 0 => initPromise' = initPromise
       /\ \A c \in Callers :
             callers'[c].pc = "resolved"
             => (dbInstance' # 0 /\ callers'[c].value = dbInstance')]_vars

\* one caller awaited the construction, another came later and was served
\* from the cache: both hold the same handle
C23_Witness ==
    /\ dbInstance # 0
    /\ \E c1, c2 \in Callers :
          /\ callers[c1].pc = "resolved" /\ callers[c1].waited
          /\ callers[c2].pc = "resolved" /\ ~callers[c2].waited
          /\ callers[c1].value = dbInstance
          /\ callers[c2].value = dbInstance

\* C24 (under SpecDbFair): the outcome of the construction reaches every caller
\* that awaits it. A caller awaiting a failed construction is rejected and the
\* cached handle stays unset; a caller awaiting a successful one receives the
\* cached handle; and no awaiting caller waits forever.
C24_OutcomeReachesAwaiters ==
    /\ [][\A c \in Callers :
             Settle(c) =>
                 /\ ctors[callers[c].promise].pc = "rejected"
                    => /\ callers'[c].pc = "rejected"
                       /\ callers'[c].value = 0
                       /\ dbInstance' = 0
                 /\ ctors[callers[c].promise].pc = "fulfilled"
                    => /\ callers'[c].pc = "resolved"
                       /\ callers'[c].value = dbInstance]_vars
    /\ \A c \in Callers : []<>(callers[c].pc # "awaiting")

\* the construction failed and every caller, having awaited it, was rejected
C24_Witness ==
    /\ dbInstance = 0
    /\ initPromise # 0
    /\ ctors[initPromise].pc = "rejected"
    /\ \A c \in Callers :
          /\ callers[c].pc = "rejected"
          /\ callers[c].err = "construction"
          /\ callers[c].waited

\* the binding the ambient module alone offers
AmbientBinding ==
    IF cfModule.importable /\ cfModule.env.present THEN cfModule.env.map["DB"]
    ELSE Undefined

\* C25: getDb() outside a request, in the revision that goes through lib/env.
\* The exception of getRequest() does not fail the construction: it starts and
\* looks for the binding without a context, which the ambient module alone can
\* provide; without one, the local handle's URL is what LIBSQL_URL resolves to
\* without a context (or the default).
C25_OutsideRequest ==
    [][/\ \A c \in Callers :
             ( /\ revision = "unified"
               /\ dbInstance = 0
               /\ initPromise = 0
               /\ GetDb(c, FALSE, OutsideRequest) )
             => /\ Len(ctors') = Len(ctors) + 1
                /\ ctors'[Len(ctors')].pc = "probe"
                /\ ~ctors'[Len(ctors')].ctx.given
                /\ callers'[c].pc = "awaiting"
       /\ \A i \in 1..Len(ctors) :
             (revision = "unified" /\ ~ctors[i].ctx.given) =>
                 /\ CtorProbe(i) =>
                       /\ ctors'[i].d1 = AmbientBinding
                       /\ ctors'[i].pc = IF Truthy(AmbientBinding) THEN "d1import"
                                         ELSE "localimport"
                 /\ CtorLocalUrl(i) =>
                       ctors'[i].url =
                           IF Truthy(Resolved("LIBSQL_URL", NoContext))
                           THEN Resolved("LIBSQL_URL", NoContext)
                           ELSE DefaultUrl]_vars

\* a local handle was constructed and cached by a getDb() outside a request
C25_Witness ==
    /\ revision = "unified"
    /\ dbInstance # 0
    /\ ~ctors[dbInstance].ctx.given
    /\ ctors[dbInstance].pc = "fulfilled"
    /\ ctors[dbInstance].d1 = Undefined
    /\ ctors[dbInstance].url # Undefined

\* a Node.js server whose database handle has been created: the state in
\* which the application code below runs
InitCoreIdle ==
    /\ context = NoContext
    /\ cfModule = [importable |-> FALSE, env |-> Absent]
    /\ importMeta = [status |-> "undefined", map |-> EmptyMap]
    /\ processEnv = Present(EmptyMap)
    /\ lastCall = NoCall
    /\ revision = "unified"
    /\ InitDbCached

(***************************************************************************)
(* The users API: createUser, updateUser and deleteUser                    *)
(* (src/routes/api/example.ts) over the users table (db/schema.ts).        *)
(* Every await of a handler is a point where another call can run, so a    *)
(* handler is one action per statement that touches the table.  getDb() is *)
(* taken to resolve (its failure is the matter of the singleton above).    *)
(***************************************************************************)
MaxIds == 2

\* two calls can be in progress at once
Requests == {1, 2}
Emails == {"a@x.io", "b@x.io"}

\* data.name: omitted, empty, or a name
NameInputs == {Undefined, Str(""), Str("Ann")}

\* data.name of updateUser
NewNames == {Undefined, Str("Ann")}

\* data.email of updateUser is optional: "" stands for an omitted email
EmailInputs == Emails \cup {""}

\* data.userId: 0 stands for the empty string, which is falsy
UserIds == 0..MaxIds

NoRow == [id |-> 0, name |-> Undefined, email |-> ""]
NoResult == [kind |-> "none", success |-> FALSE, error |-> "", data |-> NoRow]
Returned(success, error, data) ==
    [kind |-> "returned", success |-> success, error |-> error, data |-> data]
Threw(error) == [kind |-> "threw", success |-> FALSE, error |-> error, data |-> NoRow]

EmailExists == "User with this email already exists"
UniqueFailed == "UNIQUE constraint failed: users.email"

IdleRequest ==
    [op |-> "none", pc |-> "done", userId |-> 0, name |-> Undefined, email |-> "",
     raced |-> FALSE, result |-> NoResult]

\* db.select().from(users).where(eq(users.email, email))
SelectByEmail_Nothing(rows, email) == {}

SelectByEmail(rows, email) == {u \in rows : u.email = email}

\* db.select().from(users).where(eq(users.id, id))
SelectById(rows, id) == {u \in rows : u.id = id}

\* rows[0] of a select: undefined (NoRow) when the select found nothing
First(rows) == IF rows = {} THEN NoRow ELSE CHOOSE u \in rows : TRUE

\* email: text('email').notNull().unique(): a write that would give a second
\* row the same email is refused by the table
UniqueViolation_Unconstrained(rows, id, email) == FALSE

UniqueViolation(rows, id, email) == \E u \in rows : u.email = email /\ u.id # id

\* name: data.name || 'Anonymous'
InsertName(name) == IF Truthy(name) THEN name ELSE Str("Anonymous")

\* the handler returns or throws: its arguments are gone, its outcome is what
\* the caller sees
Finish(r, result) ==
    requests' = [requests EXCEPT ![r].pc = "done", ![r].result = result,
                                 ![r].userId = 0, ![r].name = Undefined,
                                 ![r].email = IF requests[r].op = "createUser"
                                                 THEN requests[r].email ELSE ""]

Goto(r, pc) == requests' = [requests EXCEPT ![r].pc = pc]

At(r, op, pc) == requests[r].op = op /\ requests[r].pc = pc

\* a call is made in slot r; the outcomes of the calls that have finished
\* have reached their callers by then, and a race recorded against a call that
\* is over is forgotten
Begin(r, call) ==
    requests' = [q \in Requests |->
                    IF q = r THEN call
                    ELSE IF requests[q].pc = "done" THEN IdleRequest
                    ELSE [requests[q] EXCEPT !.raced = FALSE]]

\* createUser is called; it suspends at `await getDb()`
StartCreateUser(r, name, email) ==
    /\ requests[r].pc = "done"
    /\ Begin(r, [op |-> "createUser", pc |-> "check", userId |-> 0, name |-> name,
                 email |-> email, raced |-> FALSE, result |-> NoResult])
    /\ UNCHANGED <<users, nextId, usersFrame>>

\* another createUser call with the same email has passed its check and has not
\* inserted yet (recorded when r passes its own check, for the claims)
Racing(r) ==
    \E q \in Requests \ {r} :
        At(q, "createUser", "insert") /\ requests[q].email = requests[r].email

\* const existingUser = await db.select()...; if (existingUser.length > 0) return {...}
CreateUserCheck(r) ==
    /\ At(r, "createUser", "check")
    /\ IF SelectByEmail(users, requests[r].email) # {}
          THEN Finish(r, Returned(FALSE, EmailExists, NoRow))
          ELSE requests' = [requests EXCEPT ![r].pc = "insert",
                                            ![r].raced = Racing(r)]
    /\ UNCHANGED <<users, nextId, usersFrame>>

\* await db.insert(users).values(insertData)
CreateUserInsert(r) ==
    /\ At(r, "createUser", "insert")
    /\ IF UniqueViolation(users, 0, requests[r].email)
          THEN /\ Finish(r, Threw(UniqueFailed))
               /\ UNCHANGED <<users, nextId>>
          ELSE /\ nextId < MaxIds
               /\ users' = users \cup
                      {[id |-> nextId + 1, name |-> InsertName(requests[r].name),
                        email |-> requests[r].email]}
               /\ nextId' = nextId + 1
               /\ Goto(r, "fetch")
    /\ UNCHANGED usersFrame

\* const newUser = await db.select()...; return { success: true, data: newUser[0], ... }
CreateUserFetch(r) ==
    /\ At(r, "createUser", "fetch")
    /\ Finish(r, Returned(TRUE, "", First(SelectByEmail(users, requests[r].email))))
    /\ UNCHANGED <<users, nextId, usersFrame>>

\* updateUser is called: if (!data.userId) return {...}; else it suspends at
\* `await getDb()`
StartUpdateUser(r, userId, name, email) ==
    /\ requests[r].pc = "done"
    /\ Begin(r, [op |-> "updateUser", pc |-> IF userId = 0 THEN "done" ELSE "check",
                 userId |-> userId, name |-> IF userId = 0 THEN Undefined ELSE name,
                 email |-> IF userId = 0 THEN "" ELSE email, raced |-> FALSE,
                 result |-> IF userId = 0
                               THEN Returned(FALSE, "User ID is required", NoRow)
                               ELSE NoResult])
    /\ UNCHANGED <<users, nextId, usersFrame>>

\* const existingUser = await db.select()...; if (existingUser.length === 0) return {...}
UpdateUserCheck(r) ==
    /\ At(r, "updateUser", "check")
    /\ IF SelectById(users, requests[r].userId) = {}
          THEN Finish(r, Returned(FALSE, "User not found", NoRow))
          ELSE Goto(r, "update")
    /\ UNCHANGED <<users, nextId, usersFrame>>

\* the row after .set({ name: data.name, email: data.email, updatedAt }): an
\* undefined field is left as it is
UpdatedRow(u, name, email) ==
    [u EXCEPT !.name = IF name = Undefined THEN u.name ELSE name,
              !.email = IF email = "" THEN u.email ELSE email]

\* await db.update(users).set(updateData).where(eq(users.id, data.userId))
UpdateUserSet(r) ==
    /\ At(r, "updateUser", "update")
    /\ LET old == SelectById(users, requests[r].userId)
           new == {UpdatedRow(u, requests[r].name, requests[r].email) : u \in old}
       IN  IF \E u \in new : UniqueViolation(users, u.id, u.email)
              THEN /\ Finish(r, Threw(UniqueFailed))
                   /\ UNCHANGED users
              ELSE /\ users' = (users \ old) \cup new
                   /\ Goto(r, "fetch")
    /\ UNCHANGED <<nextId, usersFrame>>

\* const updatedUser = await db.select()...; return { success: true, data: updatedUser[0], ... }
UpdateUserFetch(r) ==
    /\ At(r, "updateUser", "fetch")
    /\ Finish(r, Returned(TRUE, "", First(SelectById(users, requests[r].userId))))
    /\ UNCHANGED <<users, nextId, usersFrame>>

\* deleteUser is called: if (!data.userId) return {...}; else it suspends at
\* `await getDb()`
StartDeleteUser(r, userId) ==
    /\ requests[r].pc = "done"
    /\ Begin(r, [op |-> "deleteUser", pc |-> IF userId = 0 THEN "done" ELSE "delete",
                 userId |-> userId, name |-> Undefined, email |-> "", raced |-> FALSE,
                 result |-> IF userId = 0
                               THEN Returned(FALSE, "User ID is required", NoRow)
                               ELSE NoResult])
    /\ UNCHANGED <<users, nextId, usersFrame>>

\* await db.delete(users).where(eq(users.id, data.userId)); return { success: true, ... }
DeleteUserRun(r) ==
    /\ At(r, "deleteUser", "delete")
    /\ users' = users \ SelectById(users, requests[r].userId)
    /\ Finish(r, Returned(TRUE, "", NoRow))
    /\ UNCHANGED <<nextId, usersFrame>>

InitUsers ==
    /\ InitCoreIdle
    /\ InitConfigIdle
    /\ InitThemeIdle
    /\ InitTruncIdle
    /\ users = {}
    /\ nextId = 0
    /\ requests = [r \in Requests |-> IdleRequest]

NextUsers ==
    \/ \E r \in Requests, name \in NameInputs, email \in Emails :
           StartCreateUser(r, name, email)
    \/ \E r \in Requests : CreateUserCheck(r)
    \/ \E r \in Requests : CreateUserInsert(r)
    \/ \E r \in Requests : CreateUserFetch(r)
    \/ \E r \in Requests, userId \in UserIds, name \in NewNames, email \in EmailInputs :
           StartUpdateUser(r, userId, name, email)
    \/ \E r \in Requests : UpdateUserCheck(r)
    \/ \E r \in Requests : UpdateUserSet(r)
    \/ \E r \in Requests : UpdateUserFetch(r)
    \/ \E r \in Requests, userId \in UserIds : StartDeleteUser(r, userId)
    \/ \E r \in Requests : DeleteUserRun(r)

SpecUsers == InitUsers /\ [][NextUsers]_vars

(***************************************************************************)
(* Claims about the users API                                              *)
(***************************************************************************)
Stored(email) == \E u \in users : u.email = email

\* the name the new row is claimed to carry
ClaimedName(name) == IF name \in {Undefined, Str("")} THEN Str("Anonymous") ELSE name

\* C26: createUser with an email that a stored user already has answers
\* {success: false, error: 'User with this email already exists'} and leaves
\* the table as it is; with an email not stored it inserts exactly one row with
\* that email (name 'Anonymous' when the name is missing or empty) and returns
\* that row with success: true.
C26_CreateUser ==
    [][\A r \in Requests :
          LET email == requests[r].email IN
          /\ (CreateUserCheck(r) /\ Stored(email)) =>
                /\ requests'[r].pc = "done"
                /\ requests'[r].result = Returned(FALSE, EmailExists, NoRow)
                /\ users' = users
          /\ (CreateUserCheck(r) /\ ~Stored(email)) =>
                /\ requests'[r].pc = "insert"
                /\ users' = users
          /\ (CreateUserInsert(r) /\ ~Stored(email)) =>
                /\ requests'[r].pc = "fetch"
                /\ \E u \in users' \ users :
                      /\ users' = users \cup {u}
                      /\ u.email = email
                      /\ u.name = ClaimedName(requests[r].name)
                      /\ \A v \in users : v.id # u.id
          /\ (CreateUserFetch(r) /\ Stored(email)) =>
                /\ requests'[r].pc = "done"
                /\ requests'[r].result.kind = "returned"
                /\ requests'[r].result.success
                /\ requests'[r].result.data \in users
                /\ requests'[r].result.data.email = email]_vars

\* one call has created an 'Anonymous' user while another call with the same
\* email was told that the email exists
C26_Witness ==
    \E r1, r2 \in Requests :
        /\ requests[r1].op = "createUser" /\ requests[r1].pc = "done"
        /\ requests[r1].result.success
        /\ requests[r1].result.data.name = Str("Anonymous")
        /\ requests[r2].op = "createUser" /\ requests[r2].pc = "done"
        /\ requests[r2].email = requests[r1].email
        /\ requests[r2].result = Returned(FALSE, EmailExists, NoRow)

UniqueEmails == \A u, v \in users : u.email = v.email => u = v

\* two calls of createUser with the same email that both passed the existence
\* check before either inserted, and have both returned success: true
BothSucceeded ==
    \E r1, r2 \in Requests :
        /\ r1 # r2
        /\ requests[r1].raced \/ requests[r2].raced
        /\ requests[r1].op = "createUser" /\ requests[r2].op = "createUser"
        /\ requests[r1].email = requests[r2].email
        /\ requests[r1].result.success /\ requests[r2].result.success

ConfigKeys ==
    {"CLOUDFLARE_ACCOUNT_ID", "CLOUDFLARE_DATABASE_ID", "CLOUDFLARE_API_TOKEN",
     "LIBSQL_URL"}

\* a variable of process.env is unset, empty, or a text of its own
ConfigValues(k) ==
    {Undefined, Str(""),
     Str(CASE k = "CLOUDFLARE_ACCOUNT_ID" -> "acc"
           [] k = "CLOUDFLARE_DATABASE_ID" -> "dbid"
           [] k = "CLOUDFLARE_API_TOKEN" -> "tok"
           [] OTHER -> "file:./other.db")}

ConfigEnvs == {e \in [ConfigKeys -> UNION {ConfigValues(k) : k \in ConfigKeys}] :
                  \A k \in ConfigKeys : e[k] \in ConfigValues(k)}

NoConfig ==
    [loaded |-> FALSE, dialect |-> "", driver |-> Undefined, accountId |-> Undefined,
     databaseId |-> Undefined, token |-> Undefined, url |-> Undefined]

\* const isCloudflareEnv = process.env.CLOUDFLARE_ACCOUNT_ID &&
\*     process.env.CLOUDFLARE_DATABASE_ID && process.env.CLOUDFLARE_API_TOKEN
isCloudflareEnv_AnyCredential(env) ==
    \/ Truthy(env["CLOUDFLARE_ACCOUNT_ID"])
    \/ Truthy(env["CLOUDFLARE_DATABASE_ID"])
    \/ Truthy(env["CLOUDFLARE_API_TOKEN"])

isCloudflareEnv(env) ==
    /\ Truthy(env["CLOUDFLARE_ACCOUNT_ID"])
    /\ Truthy(env["CLOUDFLARE_DATABASE_ID"])
    /\ Truthy(env["CLOUDFLARE_API_TOKEN"])

\* const dbUrl = process.env.LIBSQL_URL || 'file:./db/app.db'
dbUrl(env) == IF Truthy(env["LIBSQL_URL"]) THEN env["LIBSQL_URL"] ELSE Str("file:./db/app.db")

\* if (isCloudflareEnv) { config = {... driver: 'd1-http', dbCredentials: {accountId,
\* databaseId, token}} } else { config = {... dbCredentials: {url: dbUrl}} }
EvalConfig(env) ==
    IF isCloudflareEnv(env)
       THEN [loaded |-> TRUE, dialect |-> "sqlite", driver |-> Str("d1-http"),
             accountId |-> env["CLOUDFLARE_ACCOUNT_ID"],
             databaseId |-> env["CLOUDFLARE_DATABASE_ID"],
             token |-> env["CLOUDFLARE_API_TOKEN"], url |-> Undefined]
       ELSE [loaded |-> TRUE, dialect |-> "sqlite", driver |-> Undefined,
             accountId |-> Undefined, databaseId |-> Undefined, token |-> Undefined,
             url |-> dbUrl(env)]

\* drizzle-kit evaluates the module
LoadConfig ==
    /\ ~config.loaded
    /\ config' = EvalConfig(configEnv)
    /\ UNCHANGED <<configEnv, configFrame>>

\* the module is evaluated afresh by the next run of drizzle-kit, in the
\* environment of that run
RunAgain(env) ==
    /\ config.loaded
    /\ configEnv' = env
    /\ config' = NoConfig
    /\ UNCHANGED configFrame

InitConfig ==
    /\ InitCoreIdle
    /\ InitUsersIdle
    /\ InitThemeIdle
    /\ InitTruncIdle
    /\ configEnv \in ConfigEnvs
    /\ config = NoConfig

NextConfig ==
    \/ LoadConfig
    \/ \E env \in ConfigEnvs : RunAgain(env)

SpecConfig == InitConfig /\ [][NextConfig]_vars

Unset(v) == v \in {Undefined, Str("")}

\* C28: the configuration selects the d1-http driver exactly when
\* CLOUDFLARE_ACCOUNT_ID, CLOUDFLARE_DATABASE_ID and CLOUDFLARE_API_TOKEN are
\* all non-empty in process.env; when one of them is missing or empty it is
\* the local libsql configuration with the URL LIBSQL_URL, or
\* 'file:./db/app.db' when LIBSQL_URL is unset or empty.
C28_DriverSelection ==
    config.loaded =>
        LET all == \A k \in ConfigKeys \ {"LIBSQL_URL"} : ~Unset(configEnv[k]) IN
        /\ config.driver = Str("d1-http") <=> all
        /\ all =>
              /\ config.accountId = configEnv["CLOUDFLARE_ACCOUNT_ID"]
              /\ config.databaseId = configEnv["CLOUDFLARE_DATABASE_ID"]
              /\ config.token = configEnv["CLOUDFLARE_API_TOKEN"]
              /\ config.url = Undefined
        /\ ~all =>
              /\ config.driver = Undefined
              /\ config.accountId = Undefined /\ config.token = Undefined
              /\ config.url = IF Unset(configEnv["LIBSQL_URL"])
                                 THEN Str("file:./db/app.db")
                                 ELSE configEnv["LIBSQL_URL"]

\* two of the three credentials are set and the third is empty: the local
\* configuration with the default URL is chosen
C28_Witness ==
    /\ config.loaded
    /\ configEnv["CLOUDFLARE_ACCOUNT_ID"] = Str("acc")
    /\ configEnv["CLOUDFLARE_DATABASE_ID"] = Str("dbid")
    /\ configEnv["CLOUDFLARE_API_TOKEN"] = Str("")
    /\ configEnv["LIBSQL_URL"] = Undefined
    /\ config.driver = Undefined
    /\ config.url = Str("file:./db/app.db")

(***************************************************************************)
(* The theme of the page: themeScript (routes/__root.tsx), which runs      *)
(* before the page is rendered, and the component ThemeToggle.             *)
(***************************************************************************)
MaxClicks == 4

\* localStorage.getItem returns null for a key that was never set
NoItem == <<"null", "">>

\* what localStorage can hold under 'theme' when the page is opened: nothing,
\* a theme, or a text that another version of the page left there
StoredThemes == {NoItem, Str("light"), Str("dark"), Str(""), Str("system")}

\* prefersDark ? 'dark' : 'light'
SystemTheme(dark) == IF dark THEN "dark" ELSE "light"

\* const nextTheme = storedTheme ?? (prefersDark ? 'dark' : 'light')
NextTheme(stored, dark) == IF stored = NoItem THEN SystemTheme(dark) ELSE stored[2]

\* the second effect, run after a render with state (m, th):
\* if (!mounted) return; ...; window.localStorage.setItem(STORAGE_KEY, theme)
PersistTheme_Unguarded(m, th, stored) == Str(th)

PersistTheme(m, th, stored) == IF m THEN Str(th) ELSE stored

\* the second effect: if (!mounted) return; root.classList.toggle('dark', theme === 'dark')
ApplyTheme(m, th, class) == IF m THEN th = "dark" ELSE class

\* themeScript: var theme = localStorage.getItem('theme'); if (!theme) theme = ...;
\* if (theme === 'dark') document.documentElement.classList.add('dark')
RunThemeScript ==
    /\ page = "html"
    /\ LET t == IF Truthy(storage) THEN storage[2] ELSE SystemTheme(prefersDark)
       IN  darkClass' = (darkClass \/ t = "dark")
    /\ page' = "ready"
    /\ UNCHANGED <<theme, mounted, dirty, storage, prefersDark, clicks, themeFrame>>

\* ThemeToggle is rendered for the first time (theme 'light', mounted false)
\* and the effects of that render run: the first one reads the stored theme and
\* sets the state, the second one sees mounted = false
MountEffects ==
    /\ page = "ready"
    /\ LET nextTheme == NextTheme(storage, prefersDark)
           class == (nextTheme = "dark")
       IN  /\ darkClass' = ApplyTheme(mounted, theme, class)
           /\ storage' = PersistTheme(mounted, theme, storage)
           /\ theme' = nextTheme
    /\ mounted' = TRUE
    /\ dirty' = TRUE
    /\ page' = "shown"
    /\ UNCHANGED <<prefersDark, clicks, themeFrame>>

\* the effects of the latest render run (dependencies [theme, mounted])
RunEffect ==
    /\ page = "shown"
    /\ dirty
    /\ darkClass' = ApplyTheme(mounted, theme, darkClass)
    /\ storage' = PersistTheme(mounted, theme, storage)
    /\ dirty' = FALSE
    /\ UNCHANGED <<page, theme, mounted, prefersDark, clicks, themeFrame>>

\* a click on the button, which is rendered only when mounted:
\* setTheme((current) => (current === 'dark' ? 'light' : 'dark'))
ToggleTheme ==
    /\ page = "shown"
    /\ mounted
    /\ clicks < MaxClicks
    /\ theme' = IF theme = "dark" THEN "light" ELSE "dark"
    /\ dirty' = TRUE
    /\ clicks' = clicks + 1
    /\ UNCHANGED <<page, mounted, storage, darkClass, prefersDark, themeFrame>>

\* the user navigates to a route without ThemeToggle: its state is dropped
\* (pending effects run before the next render), the document and the storage stay
Unmount ==
    /\ page = "shown"
    /\ ~dirty
    /\ page' = "ready"
    /\ theme' = "light"
    /\ mounted' = FALSE
    /\ clicks' = 0
    /\ UNCHANGED <<dirty, storage, darkClass, prefersDark, themeFrame>>

\* the page is loaded again: a new document, the storage stays
Reload ==
    /\ page # "html"
    /\ page' = "html"
    /\ theme' = "light"
    /\ mounted' = FALSE
    /\ dirty' = FALSE
    /\ darkClass' = FALSE
    /\ clicks' = 0
    /\ UNCHANGED <<storage, prefersDark, themeFrame>>

\* the user changes the colour scheme of the system
ChangePreference ==
    /\ prefersDark' = ~prefersDark
    /\ UNCHANGED <<page, theme, mounted, dirty, storage, darkClass, clicks, themeFrame>>

InitTheme ==
    /\ InitCoreIdle
    /\ InitUsersIdle
    /\ InitConfigIdle
    /\ InitTruncIdle
    /\ page = "html"
    /\ theme = "light"
    /\ mounted = FALSE
    /\ dirty = FALSE
    /\ storage \in StoredThemes
    /\ darkClass = FALSE
    /\ prefersDark \in BOOLEAN
    /\ clicks = 0

NextTheme_ ==
    \/ RunThemeScript
    \/ MountEffects
    \/ RunEffect
    \/ ToggleTheme
    \/ Unmount
    \/ Reload
    \/ ChangePreference

SpecTheme == InitTheme /\ [][NextTheme_]_vars

\* the effects of every committed render have run
Settled == page = "shown" /\ mounted /\ ~dirty

\* C29: on mount the theme becomes the stored 'theme' value when there is one
\* and the system preference otherwise; the storage is not written before the
\* component is mounted; a click flips light and dark; and once the effects
\* have run after mount, the stored value equals the theme and the root element
\* has the class 'dark' exactly when the theme is 'dark'.
C29_ThemeAgreement ==
    /\ [](Settled => storage = Str(theme) /\ (darkClass <=> theme = "dark"))
    /\ [][/\ MountEffects =>
                /\ theme' = IF storage # NoItem THEN storage[2]
                            ELSE IF prefersDark THEN "dark" ELSE "light"
                /\ mounted'
          /\ storage' # storage => mounted
          /\ ToggleTheme =>
                /\ theme = "light" => theme' = "dark"
                /\ theme = "dark" => theme' = "light"]_vars

\* the system prefers light; after one click and the effects that follow it the
\* theme is dark, 'dark' is stored and the root element has the class
C29_Witness ==
    /\ Settled
    /\ clicks = 1
    /\ ~prefersDark
    /\ theme = "dark"
    /\ storage = Str("dark")
    /\ darkClass

(***************************************************************************)
(* truncateText (lib/utils.ts).  A string is the sequence of its           *)
(* characters; indices are those of JavaScript (from 0) inside the         *)
(* operators that model String methods.                                    *)
(***************************************************************************)
MaxLen == 3

\* the window in which a space is accepted as the place to cut
Window == 50

\* one character, U+2026
Ellipsis == "..."

Min(a, b) == IF a < b THEN a ELSE b
Max(a, b) == IF a > b THEN a ELSE b

\* s.slice(0, end): a negative end counts from the end of s
slice(s, end) ==
    LET to == IF end < 0 THEN Max(Len(s) + end, 0) ELSE Min(end, Len(s))
    IN  SubSeq(s, 1, to)

\* s.lastIndexOf(' '): -1 when s has no space
lastIndexOf(s, ch) ==
    LET at == {i \in 1..Len(s) : s[i] = ch}
    IN  IF at = {} THEN -1 ELSE (CHOOSE i \in at : \A j \in at : j <= i) - 1

\* if (text.length <= maxLength) return text
\* const truncated = text.slice(0, maxLength)
\* const lastSpace = truncated.lastIndexOf(' ')
\* return lastSpace > maxLength - 50 ? truncated.slice(0, lastSpace) + '...' : truncated + '...'
truncateText(t, n) ==
    IF Len(t) <= n THEN t
    ELSE LET truncated == slice(t, n)
             lastSpace == lastIndexOf(truncated, " ")
         IN  IF lastSpace > n - Window
                THEN slice(truncated, lastSpace) \o <<Ellipsis>>
                ELSE truncated \o <<Ellipsis>>

RECURSIVE Texts(_)
\* the texts of length n over a letter and the space
Texts(n) ==
    IF n = 0 THEN {<<>>}
    ELSE {Append(t, c) : t \in Texts(n - 1), c \in {"a", " "}}

ShortTexts == UNION {Texts(n) : n \in 0..MaxLen}

\* a text of 60 letters, with a space at position k (from 1) unless k = 0
LongText(k) == [i \in 1..60 |-> IF i = k THEN " " ELSE "a"]

\* no space; a space at index maxLength - 50 and at maxLength - 49 for the
\* maxLength 55; a space in the middle of the window
LongTexts == {LongText(k) : k \in {0, 6, 7, 30}}

CallTruncateText ==
    /\ ~truncOut.called
    /\ truncOut' = [called |-> TRUE, value |-> truncateText(text, maxLength)]
    /\ UNCHANGED <<text, maxLength, truncFrame>>

InitTrunc ==
    /\ InitCoreIdle
    /\ InitUsersIdle
    /\ InitConfigIdle
    /\ InitThemeIdle
    /\ \/ text \in ShortTexts /\ maxLength \in 0..MaxLen
       \/ text \in LongTexts /\ maxLength \in {49, 55, 60}
    /\ truncOut = [called |-> FALSE, value |-> <<>>]

NextTrunc == CallTruncateText

SpecTrunc == InitTrunc /\ [][NextTrunc]_vars

\* the positions (from 1) of the spaces among the first n characters of t
Spaces(t, n) == {i \in 1..Min(n, Len(t)) : t[i] = " "}

\* C30: truncateText returns the text itself when it is not longer than
\* maxLength; otherwise a prefix of the text of at most maxLength characters
\* followed by one ellipsis, where the prefix ends before the last space only if
\* that space is among the final 50 of the first maxLength characters, and is
\* the first maxLength characters when these have no space.
C30_TruncateText ==
    truncOut.called =>
        IF Len(text) <= maxLength THEN truncOut.value = text
        ELSE \E k \in 0..maxLength :
                /\ truncOut.value = SubSeq(text, 1, k) \o <<Ellipsis>>
                /\ k < maxLength =>
                      /\ Spaces(text, maxLength) # {}
                      /\ \A i \in Spaces(text, maxLength) : i <= k + 1
                      /\ k + 1 \in Spaces(text, maxLength)
                      /\ k + 1 > maxLength - Window
                /\ Spaces(text, maxLength) = {} => k = maxLength

====
